---- MODULE Spec2Model ----
(***************************************************************************)
(* Model of the employee query agent service.                              *)
(*                                                                         *)
(*   src/main.py   get_query: the HTTP handler, one worker thread per      *)
(*                 request (a synchronous FastAPI endpoint).               *)
(*   src/agent.py  conversation_memories, get_conversation_memory and      *)
(*                 process_agent_query, which runs a LangChain              *)
(*                 AgentExecutor (handle_parsing_errors=True,               *)
(*                 max_iterations=8, memory=memory,                         *)
(*                 return_intermediate_steps=True) on the question.         *)
(*                                                                         *)
(* AgentExecutor.invoke is library code called at agent.py:146.  It is     *)
(* modelled by what it does with the arguments agent.py:135-143 gives it:  *)
(*   prep_inputs   reads memory.chat_memory.messages into "chat_history";  *)
(*   _call         while iterations < max_iterations: plan (one call of    *)
(*                 the completion engine), on AgentFinish return, else run *)
(*                 the tool, extend intermediate_steps, iterations += 1;   *)
(*                 a response that does not parse becomes a step of the    *)
(*                 pseudo-tool "_Exception" with the observation           *)
(*                 "Invalid or incomplete response" and counts as an       *)
(*                 iteration; when the cap is reached the output is        *)
(*                 "Agent stopped due to iteration limit or time limit.";  *)
(*   prep_outputs  memory.save_context appends the HumanMessage and then   *)
(*                 the AIMessage, only when _call returned normally;       *)
(*   an exception raised by the engine or by a tool leaves invoke as an    *)
(*   exception and save_context is not reached.                            *)
(***************************************************************************)
EXTENDS Integers, Sequences, FiniteSets, TLC

\* agent.py:140  max_iterations=8
MaxIterations == 8

\* Bound: requests the service receives in one behaviour.
MaxRequests == 2

\* Bound: the cycles of a run in which the completion engine's response is of
\* any kind; in the later cycles of the run it is of the kind of the cycle
\* before, or a FinalAnswer, or the call raises.
MaxFreeCycles == 2

\* Bound: jobs the ETL scheduler runs in one behaviour.
MaxJobs == 2

\* Bound: records one ETL job generates.
MaxRecords == 3

\* Worker threads of the HTTP server (main.py:80-95, thread per request).
Threads == {1, 2}

\* Conversation ids a client sends of its own accord.
ClientIds == {"A", "B"}

\* Absent conversation id: None and "" are both falsy at agent.py:127.
NoId == ""

\* str(uuid.uuid4()) (agent.py:129): the n-th identifier generated.
UuidNames == <<"u1", "u2", "u3", "u4", "u5">>

Uuid(n) == UuidNames[n]

\* The question text of the n-th request.
Questions == <<"q1", "q2", "q3", "q4", "q5">>

\* The tools of SQLDatabaseToolkit(db=db, llm=llm) (agent.py:39-42) the model
\* distinguishes: a tool that only reads the database, and the query checker,
\* which asks the completion engine (the llm handed to the toolkit) to review
\* the SQL text.
QueryTool == "sql_db_query"

CheckerTool == "sql_db_query_checker"

Tools == {QueryTool, CheckerTool}

\* AgentExecutor's pseudo-tool for a response that failed to parse.
ExceptionTool == "_Exception"

ParseErrorObservation == "Invalid or incomplete response"

StoppedNotice == "Agent stopped due to iteration limit or time limit."

FinalAnswerText == "final answer"

EngineFaultMessage == "completion engine unreachable"

ToolFaultMessage == "database unavailable"

\* The schema tool of the toolkit (agent.py:39-42).
SchemaTool == "sql_db_schema"

\* A tool name outside the tool set.
UnknownTool == "employee_lookup"

\* Tool-level errors: the Action the engine asked for and the error text the
\* executor gets back as the observation.  The SQL tools return the backend's
\* error as text; an unknown tool name is answered by the executor itself.
ErrorCases ==
    { [tool |-> SchemaTool, tool_input |-> "staff",
       observation |-> "Error: table_names {'staff'} not found in database"],
      [tool |-> QueryTool, tool_input |-> "SELECT nam FROM employees",
       observation |-> "Error: (sqlite3.OperationalError) no such column: nam"],
      [tool |-> UnknownTool, tool_input |-> "Engineering",
       observation |-> "employee_lookup is not a valid tool, try one of [sql_db_query, sql_db_schema, sql_db_list_tables, sql_db_query_checker]."] }

VARIABLES
    conversation_memories, \* agent.py:45  id -> ConversationBufferMemory object
                           \* (0: the id is not a key of the dict)
    memories,              \* the objects: memories[o] = o.chat_memory.messages
    uuids,                 \* number of identifiers uuid4 has generated
    requests,              \* number of requests received so far
    run,                   \* run[t]: the request worker t is serving
    calls,                 \* per id, the <<question, response text>> of the
                           \* results process_agent_query has returned
    boot,                  \* main.py:34-66  the module-level startup code:
                           \* its position, loop index and log
    etl                    \* etl.py  the ETL process: the employees table and
                           \* the position of the job's load_data call

vars ==
    <<conversation_memories, memories, uuids, requests, run, calls, boot, etl>>

AllIds == {NoId} \cup ClientIds \cup {Uuid(n) : n \in 1..Len(UuidNames)}

\* The keys of the conversation_memories dict.
Keys == {id \in AllIds : conversation_memories[id] # 0}

\* The history stored under an id (empty when the id is not a key).
History(id) ==
    IF conversation_memories[id] = 0
    THEN << >>
    ELSE memories[conversation_memories[id]]

NoResponse ==
    [conversation_id |-> NoId, query |-> "", response |-> "", steps |-> << >>,
     success |-> FALSE]

Idle ==
    [pc |-> "idle", given |-> NoId, conversation_id |-> NoId, query |-> "",
     memory |-> 0,
     chat_history |-> << >>, prompt_history |-> << >>,
     question_at |-> 0, answer_at |-> 0,
     iterations |-> 0, intermediate_steps |-> << >>,
     dispatched |-> << >>, parse_failures |-> 0, llm_calls |-> 0,
     outcome |-> "none",
     output |-> "", fault |-> "", response |-> NoResponse, status |-> 0]

\* main.py:36
max_retries == 3

\* The startup code before its first statement.
BootStart == [pc |-> "check", i |-> 0, attempts |-> 0, log |-> << >>]

\* The startup code at its end: Ollama answered the first check, the
\* database was initialised and the agent imported.
BootDone ==
    [pc |-> "serving", i |-> 0, attempts |-> 1,
     log |-> <<"Ollama service is running", "initialize_database: True",
               "Database file exists", "from agent import",
               "Successfully imported agent">>]

\* The ETL process before its first job: initialize_database has left an
\* empty employees table.
EtlStart ==
    [pc |-> "idle", job |-> 0, records |-> << >>, k |-> 1, table |-> {},
     pending |-> {}, result |-> "none"]

\* The service once the module-level code has run: no conversation yet.
Init ==
    /\ conversation_memories = [id \in AllIds |-> 0]
    /\ memories = << >>
    /\ uuids = 0
    /\ requests = 0
    /\ run = [t \in Threads |-> Idle]
    /\ calls = [id \in AllIds |-> << >>]
    /\ boot = BootDone
    /\ etl = EtlStart

(***************************************************************************)
(* Pure parts of process_agent_query.                                      *)
(***************************************************************************)

\* Mutant: `if conversation_id is None` lets the empty string through.
NeedsNewIdNoneOnly(conversation_id) == FALSE

\* agent.py:127  `if not conversation_id`
NeedsNewId(conversation_id) == conversation_id = NoId

\* Mutant: one memory shared by every conversation.
MemoryKeyShared(conversation_id) == "A"

\* agent.py:104-111  the key under which the dict is read and written.
MemoryKey(conversation_id) == conversation_id

\* Mutant: the loop runs once more than max_iterations.
ShouldContinueOffByOne(iterations) == iterations <= MaxIterations

\* AgentExecutor._should_continue with max_iterations=8 (agent.py:140).
ShouldContinue(iterations) == iterations < MaxIterations

\* memory.save_context: the two messages of a turn.  conv names the
\* conversation id of the run that appended the message.
HumanMessage(text, id) == [role |-> "human", content |-> text, conv |-> id]

AIMessage(text, id) == [role |-> "ai", content |-> text, conv |-> id]

\* What a tool returns as its observation.
Observation(tool) == IF tool = CheckerTool THEN "checked sql" ELSE "rows"

\* One element of intermediate_steps: (AgentAction, observation).
AgentStep(tool, tool_input, observation) ==
    <<[tool |-> tool, tool_input |-> tool_input], observation>>

\* Mutant: the step's observation is reported as the input as well.
FormatStepsObservationTwice(steps) ==
    [i \in 1..Len(steps) |->
        [tool |-> steps[i][1].tool, input |-> steps[i][2],
         output |-> steps[i][2]]]

\* agent.py:155-161  the list comprehension over intermediate_steps.
FormatSteps(steps) ==
    [i \in 1..Len(steps) |->
        [tool |-> steps[i][1].tool, input |-> steps[i][1].tool_input,
         output |-> steps[i][2]]]

\* agent.py:151-163
SuccessResponse(id, query, output, steps) ==
    [conversation_id |-> id, query |-> query, response |-> output,
     steps |-> FormatSteps(steps), success |-> TRUE]

\* agent.py:173  f"Error processing your query: {str(e)}"
ErrorText(e) ==
    IF e = EngineFaultMessage
    THEN "Error processing your query: completion engine unreachable"
    ELSE "Error processing your query: database unavailable"

\* agent.py:170-176
ErrorResponse(id, query, e) ==
    [conversation_id |-> id, query |-> query, response |-> ErrorText(e),
     steps |-> << >>, success |-> FALSE]

\* Mutant: `except ConnectionError` catches the engine's fault only.
CatchesConnectionErrorOnly(e) == e = EngineFaultMessage

\* agent.py:169  `except Exception` catches every fault of the run.
Catches(e) == TRUE

\* Checker invocations among the steps of a run.
CheckerCalls(steps) ==
    Cardinality({i \in 1..Len(steps) : steps[i][1].tool = CheckerTool})

\* The engine may answer the next cycle with a step of this tool.
MayChoose(steps, tool) ==
    IF Len(steps) < MaxFreeCycles
    THEN TRUE
    ELSE steps[Len(steps)][1].tool = tool

Set(t, r) ==
    /\ run' = [run EXCEPT ![t] = r]
    /\ boot' = boot
    /\ etl' = etl

(***************************************************************************)
(* Actions.                                                                *)
(***************************************************************************)

\* Mutant: the handler lets an empty question through.
QueryMissingNever(query) == FALSE

\* main.py:85  `if not query`
QueryMissing(query) == query = ""

\* main.py:80-90  a worker takes a request: an empty question is answered
\* with HTTP 400, any other is passed to process_agent_query.
Receive(t) ==
    /\ run[t].pc = "idle"
    /\ requests < MaxRequests
    /\ \E id \in {NoId} \cup ClientIds \cup {Uuid(n) : n \in 1..uuids},
          query \in {"", Questions[requests + 1]} :
          IF QueryMissing(query)
          THEN Set(t, [Idle EXCEPT !.pc = "rejected", !.given = id,
                                   !.status = 400])
          ELSE Set(t, [Idle EXCEPT !.pc = "entered", !.given = id,
                                   !.conversation_id = id,
                                   !.query = query])
    /\ requests' = requests + 1
    /\ UNCHANGED <<conversation_memories, memories, uuids, calls>>

\* agent.py:126-129
AssignConversationId(t) ==
    /\ run[t].pc = "entered"
    /\ IF NeedsNewId(run[t].conversation_id)
       THEN /\ uuids' = uuids + 1
            /\ Set(t, [run[t] EXCEPT !.pc = "mem_check",
                                     !.conversation_id = Uuid(uuids + 1)])
       ELSE /\ uuids' = uuids
            /\ Set(t, [run[t] EXCEPT !.pc = "mem_check"])
    /\ UNCHANGED <<conversation_memories, memories, requests, calls>>

\* agent.py:104  `if conversation_id not in conversation_memories`
MemCheck(t) ==
    /\ run[t].pc = "mem_check"
    /\ Set(t, [run[t] EXCEPT !.pc =
                  IF MemoryKey(run[t].conversation_id) \in Keys
                  THEN "mem_return" ELSE "mem_create"])
    /\ UNCHANGED <<conversation_memories, memories, uuids, requests, calls>>

\* agent.py:105-109  a new ConversationBufferMemory is stored under the id.
MemCreate(t) ==
    /\ run[t].pc = "mem_create"
    /\ memories' = Append(memories, << >>)
    /\ conversation_memories' =
          [conversation_memories EXCEPT
              ![MemoryKey(run[t].conversation_id)] =
              Len(memories) + 1]
    /\ Set(t, [run[t] EXCEPT !.pc = "mem_return"])
    /\ UNCHANGED <<uuids, requests, calls>>

\* agent.py:111 and 132  `return conversation_memories[conversation_id]`
MemReturn(t) ==
    /\ run[t].pc = "mem_return"
    /\ Set(t, [run[t] EXCEPT !.pc = "invoke",
                             !.memory =
                                 conversation_memories[
                                     MemoryKey(run[t].conversation_id)]])
    /\ UNCHANGED <<conversation_memories, memories, uuids, requests, calls>>

\* agent.py:135-148  invoke, prep_inputs: the history is read for the prompt.
PrepInputs(t) ==
    /\ run[t].pc = "invoke"
    /\ Set(t, [run[t] EXCEPT !.pc = "think",
                             !.chat_history = memories[run[t].memory]])
    /\ UNCHANGED <<conversation_memories, memories, uuids, requests, calls>>

\* One cycle: the engine's response parses to a FinalAnswer.
PlanFinalAnswer(t) ==
    /\ run[t].pc = "think"
    /\ ShouldContinue(run[t].iterations)
    /\ Set(t, [run[t] EXCEPT !.pc = "save_input",
                             !.llm_calls = @ + 1,
                             !.prompt_history = memories[run[t].memory],
                             !.outcome = "Answered",
                             !.output = FinalAnswerText])
    /\ UNCHANGED <<conversation_memories, memories, uuids, requests, calls>>

\* One cycle: the response parses to an Action, the tool runs and returns.
\* The query checker calls the completion engine once itself.
PlanAction(t, tool) ==
    /\ run[t].pc = "think"
    /\ ShouldContinue(run[t].iterations)
    /\ MayChoose(run[t].intermediate_steps, tool)
    /\ Set(t, [run[t] EXCEPT
                  !.llm_calls = @ + (IF tool = CheckerTool THEN 2 ELSE 1),
                  !.prompt_history = memories[run[t].memory],
                  !.intermediate_steps =
                      Append(@, AgentStep(tool, "sql", Observation(tool))),
                  !.dispatched =
                      Append(@, [tool |-> tool, input |-> "sql",
                                 output |-> Observation(tool)]),
                  !.iterations = @ + 1])
    /\ UNCHANGED <<conversation_memories, memories, uuids, requests, calls>>

\* Mutant: handle_parsing_errors=False, the parser's exception leaves invoke.
ParseFailureRaises(t) ==
    /\ run[t].pc = "think"
    /\ run[t].iterations < MaxIterations
    /\ Set(t, [run[t] EXCEPT !.pc = "except",
                             !.llm_calls = @ + 1,
                             !.prompt_history = memories[run[t].memory],
                             !.parse_failures = @ + 1,
                             !.outcome = "Faulted",
                             !.fault = "Could not parse LLM output"])
    /\ UNCHANGED <<conversation_memories, memories, uuids, requests, calls>>

\* One cycle: the response does not parse (handle_parsing_errors=True,
\* agent.py:139): the pseudo-tool _Exception yields the observation.
ParseFailure(t) ==
    /\ run[t].pc = "think"
    /\ ShouldContinue(run[t].iterations)
    /\ MayChoose(run[t].intermediate_steps, ExceptionTool)
    /\ Set(t, [run[t] EXCEPT
                  !.llm_calls = @ + 1,
                  !.prompt_history = memories[run[t].memory],
                  !.parse_failures = @ + 1,
                  !.intermediate_steps =
                      Append(@, AgentStep(ExceptionTool, ParseErrorObservation,
                                          ParseErrorObservation)),
                  !.iterations = @ + 1])
    /\ UNCHANGED <<conversation_memories, memories, uuids, requests, calls>>

\* Mutant: a stopped run returns without saving its turn.
StopWithoutSaving(t) ==
    /\ run[t].pc = "think"
    /\ run[t].iterations >= MaxIterations
    /\ Set(t, [run[t] EXCEPT !.pc = "build",
                             !.outcome = "Aborted",
                             !.output = StoppedNotice])
    /\ UNCHANGED <<conversation_memories, memories, uuids, requests, calls>>

\* The engine may answer the next cycle with this step.
MayRepeat(steps, step) ==
    IF Len(steps) < MaxFreeCycles
    THEN TRUE
    ELSE steps[Len(steps)] = step

\* Mutant: a tool-level error is raised out of the loop.
ToolErrorRaises(t, c) ==
    /\ run[t].pc = "think"
    /\ run[t].iterations < MaxIterations
    /\ Set(t, [run[t] EXCEPT
                  !.pc = "except",
                  !.llm_calls = @ + 1,
                  !.prompt_history = memories[run[t].memory],
                  !.dispatched =
                      Append(@, [tool |-> c.tool, input |-> c.tool_input,
                                 output |-> c.observation]),
                  !.outcome = "Faulted",
                  !.fault = ToolFaultMessage])
    /\ UNCHANGED <<conversation_memories, memories, uuids, requests, calls>>

\* One cycle: the response parses to an Action whose tool fails (unknown
\* table, failing query) or is not in the tool set: the error text is the
\* observation of the cycle.
ToolError(t, c) ==
    /\ run[t].pc = "think"
    /\ ShouldContinue(run[t].iterations)
    /\ MayRepeat(run[t].intermediate_steps,
                 AgentStep(c.tool, c.tool_input, c.observation))
    /\ Set(t, [run[t] EXCEPT
                  !.llm_calls = @ + 1,
                  !.prompt_history = memories[run[t].memory],
                  !.intermediate_steps =
                      Append(@, AgentStep(c.tool, c.tool_input,
                                          c.observation)),
                  !.dispatched =
                      Append(@, [tool |-> c.tool, input |-> c.tool_input,
                                 output |-> c.observation]),
                  !.iterations = @ + 1])
    /\ UNCHANGED <<conversation_memories, memories, uuids, requests, calls>>

\* The iteration cap is reached: return_stopped_response.
Stop(t) ==
    /\ run[t].pc = "think"
    /\ ~ShouldContinue(run[t].iterations)
    /\ Set(t, [run[t] EXCEPT !.pc = "save_input",
                             !.outcome = "Aborted",
                             !.output = StoppedNotice])
    /\ UNCHANGED <<conversation_memories, memories, uuids, requests, calls>>

\* The completion engine cannot be reached: the call raises.
EngineFault(t) ==
    /\ run[t].pc = "think"
    /\ ShouldContinue(run[t].iterations)
    /\ Set(t, [run[t] EXCEPT !.pc = "except",
                             !.outcome = "Faulted",
                             !.fault = EngineFaultMessage])
    /\ UNCHANGED <<conversation_memories, memories, uuids, requests, calls>>

\* Mutant: the question is stored before the tool's exception leaves invoke.
ToolFaultSavingQuestion(t) ==
    /\ run[t].pc = "think"
    /\ run[t].iterations < MaxIterations
    /\ memories' = [memories EXCEPT ![run[t].memory] =
                       Append(@, HumanMessage(run[t].query,
                                              run[t].conversation_id))]
    /\ Set(t, [run[t] EXCEPT !.pc = "except",
                             !.llm_calls = @ + 1,
                             !.prompt_history = memories[run[t].memory],
                             !.outcome = "Faulted",
                             !.fault = ToolFaultMessage])
    /\ UNCHANGED <<conversation_memories, uuids, requests, calls>>

\* The engine answered with an Action and the tool raises.
ToolFault(t) ==
    /\ run[t].pc = "think"
    /\ ShouldContinue(run[t].iterations)
    /\ Set(t, [run[t] EXCEPT !.pc = "except",
                             !.llm_calls = @ + 1,
                             !.prompt_history = memories[run[t].memory],
                             !.outcome = "Faulted",
                             !.fault = ToolFaultMessage])
    /\ UNCHANGED <<conversation_memories, memories, uuids, requests, calls>>

\* Mutant: the question is appended to the list read by prep_inputs and the
\* result stored, which drops what other runs appended since.
SaveInputFromSnapshot(t) ==
    /\ run[t].pc = "save_input"
    /\ memories' = [memories EXCEPT ![run[t].memory] =
                       Append(run[t].chat_history,
                              [role |-> "human", content |-> run[t].query,
                               conv |-> run[t].conversation_id])]
    /\ Set(t, [run[t] EXCEPT !.pc = "save_output",
                             !.question_at = Len(run[t].chat_history) + 1])
    /\ UNCHANGED <<conversation_memories, uuids, requests, calls>>

\* prep_outputs, save_context: the question is appended.
SaveInput(t) ==
    /\ run[t].pc = "save_input"
    /\ memories' = [memories EXCEPT ![run[t].memory] =
                       Append(@, HumanMessage(run[t].query,
                                              run[t].conversation_id))]
    /\ Set(t, [run[t] EXCEPT !.pc = "save_output",
                             !.question_at = Len(memories[run[t].memory]) + 1])
    /\ UNCHANGED <<conversation_memories, uuids, requests, calls>>

\* save_context: the output is appended.
SaveOutput(t) ==
    /\ run[t].pc = "save_output"
    /\ memories' = [memories EXCEPT ![run[t].memory] =
                       Append(@, AIMessage(run[t].output,
                                           run[t].conversation_id))]
    /\ Set(t, [run[t] EXCEPT !.pc = "build",
                             !.answer_at = Len(memories[run[t].memory]) + 1])
    /\ UNCHANGED <<conversation_memories, uuids, requests, calls>>

\* agent.py:151-167, 178 and main.py:95
BuildResponse(t) ==
    /\ run[t].pc = "build"
    /\ LET r == SuccessResponse(run[t].conversation_id, run[t].query,
                                run[t].output, run[t].intermediate_steps)
       IN /\ Set(t, [run[t] EXCEPT !.pc = "responded", !.response = r,
                                   !.status = 200])
          /\ calls' = [calls EXCEPT ![r.conversation_id] =
                          Append(@, <<r.query, r.response>>)]
    /\ UNCHANGED <<conversation_memories, memories, uuids, requests>>

\* agent.py:169-178 and main.py:91-95
HandleException(t) ==
    /\ run[t].pc = "except"
    /\ IF Catches(run[t].fault)
       THEN LET r == ErrorResponse(run[t].conversation_id, run[t].query,
                                   run[t].fault)
            IN /\ Set(t, [run[t] EXCEPT !.pc = "responded", !.response = r,
                                        !.status = 200])
               /\ calls' = [calls EXCEPT ![r.conversation_id] =
                               Append(@, <<r.query, r.response>>)]
       ELSE /\ Set(t, [run[t] EXCEPT !.pc = "responded", !.status = 500])
            /\ calls' = calls
    /\ UNCHANGED <<conversation_memories, memories, uuids, requests>>

\* The response has been sent; the worker is free again.
Respond(t) ==
    /\ run[t].pc \in {"responded", "rejected"}
    /\ Set(t, Idle)
    /\ UNCHANGED <<conversation_memories, memories, uuids, requests, calls>>

(***************************************************************************)
(* main.py:20-66  the startup code of the server module.                   *)
(***************************************************************************)

\* What one call of requests.get in check_ollama can do: answer 200, answer
\* another status, raise ConnectionError, or raise another exception (which
\* check_ollama does not catch).
CheckOutcomes == {"ok", "bad_status", "connection_error", "other_error"}

\* main.py:21-32  the value check_ollama returns and the line it logs.
check_ollama(outcome) == outcome = "ok"

CheckLog(outcome) ==
    IF outcome = "ok" THEN "Ollama service is running"
    ELSE IF outcome = "bad_status" THEN "Ollama returned unexpected status"
    ELSE "Ollama service is not running"

\* Mutant: the loop runs for i in range(max_retries + 1).
InRangeOneMore(i) == i <= max_retries

\* main.py:37  `for i in range(max_retries)`
InRange(i) == i < max_retries

Boot(b) ==
    /\ boot' = b
    /\ UNCHANGED <<conversation_memories, memories, uuids, requests, run, calls,
                   etl>>

\* main.py:37-44  one pass of the loop body up to the sleep.
CheckOllama(outcome) ==
    /\ boot.pc = "check"
    /\ InRange(boot.i)
    /\ IF outcome = "other_error"
       THEN Boot([boot EXCEPT !.pc = "aborted", !.attempts = @ + 1])
       ELSE IF check_ollama(outcome)
       THEN Boot([boot EXCEPT !.pc = "init_db", !.attempts = @ + 1,
                              !.log = Append(@, CheckLog(outcome))])
       ELSE IF boot.i < max_retries - 1
       THEN Boot([boot EXCEPT !.pc = "sleep", !.attempts = @ + 1,
                              !.log = @ \o <<CheckLog(outcome),
                                             "Waiting for Ollama to start">>])
       ELSE Boot([boot EXCEPT !.i = @ + 1, !.attempts = @ + 1,
                              !.log = @ \o <<CheckLog(outcome),
                                             "Proceeding without confirmed Ollama connection">>])

\* main.py:42  time.sleep(5), then the next pass.
Sleep ==
    /\ boot.pc = "sleep"
    /\ Boot([boot EXCEPT !.pc = "check", !.i = @ + 1])

\* main.py:37  the range is exhausted.
LoopExhausted ==
    /\ boot.pc = "check"
    /\ ~InRange(boot.i)
    /\ Boot([boot EXCEPT !.pc = "init_db"])

\* main.py:48-58  initialize_database() (its result is not used) and the
\* check of the database file.
InitializeDatabase(ok, file) ==
    /\ boot.pc = "init_db"
    /\ ok => file
    /\ Boot([boot EXCEPT
                !.pc = "import_agent",
                !.log = @ \o <<IF ok THEN "initialize_database: True"
                                     ELSE "initialize_database: False",
                               IF file THEN "Database file exists"
                                       ELSE "Database file not found">>])

\* main.py:61-66  the agent module is loaded; it raises when the database
\* file is missing (agent.py:15-16) or its set-up fails (agent.py:19-36).
ImportAgent(ok) ==
    /\ boot.pc = "import_agent"
    /\ IF ok /\ boot.log[Len(boot.log)] = "Database file exists"
       THEN Boot([boot EXCEPT !.pc = "serving",
                              !.log = @ \o <<"from agent import",
                                             "Successfully imported agent">>])
       ELSE Boot([boot EXCEPT !.pc = "aborted",
                              !.log = @ \o <<"from agent import",
                                             "Error during initialization">>])

(***************************************************************************)
(* etl.py:118-220 and database.py:144-161  the job's load into the table.  *)
(* A row is <<id, job>>: the primary key and the job that generated it.    *)
(* Each call on the database either succeeds or raises sqlite3.Error.      *)
(***************************************************************************)

\* etl.py:41-44  extract_data numbers the records of a job from 1.
extract_data(num_records, job) == [i \in 1..num_records |-> <<i, job>>]

\* The primary keys of a set of rows.
Ids(rows) == {r[1] : r \in rows}

Etl(e) ==
    /\ etl' = e
    /\ UNCHANGED <<conversation_memories, memories, uuids, requests, run, calls,
                   boot>>

\* etl.py:184-189  sqlite3.Error is caught, False returned; closing the
\* connection discards what it has not committed.
LoadFailed(e) == [e EXCEPT !.pc = "returned", !.pending = {}, !.result = "False"]

\* etl.py:192-209  run_etl_job generates the records and calls load_data.
run_etl_job(num_records) ==
    /\ etl.pc = "idle"
    /\ etl.job < MaxJobs
    /\ Etl([etl EXCEPT !.pc = "connect", !.job = @ + 1, !.k = 1,
                       !.records = extract_data(num_records, etl.job + 1),
                       !.pending = {}, !.result = "none"])

\* etl.py:128-135  create_connection; None makes load_data return False.
create_connection(ok) ==
    /\ etl.pc = "connect"
    /\ IF ok
       THEN Etl([etl EXCEPT !.pc = "count"])
       ELSE Etl([etl EXCEPT !.pc = "returned", !.result = "False"])

\* etl.py:138-141  SELECT COUNT(*) before clearing.
CountBefore(ok) ==
    /\ etl.pc = "count"
    /\ IF ok
       THEN Etl([etl EXCEPT !.pc = "clear"])
       ELSE Etl(LoadFailed(etl))

\* etl.py:144-145 and database.py:144-161  clear_table deletes and commits
\* on a connection of its own, or fails; load_data does not read its result.
clear_table(ok) ==
    /\ etl.pc = "clear"
    /\ IF ok
       THEN Etl([etl EXCEPT !.pc = "insert", !.table = {}])
       ELSE Etl([etl EXCEPT !.pc = "insert"])

\* etl.py:149-167  one INSERT; a row with the same id raises IntegrityError.
InsertRecord(ok) ==
    /\ etl.pc = "insert"
    /\ etl.k <= Len(etl.records)
    /\ IF ok /\ etl.records[etl.k][1] \notin Ids(etl.table \cup etl.pending)
       THEN Etl([etl EXCEPT !.k = @ + 1,
                           !.pending = @ \cup {etl.records[etl.k]}])
       ELSE Etl(LoadFailed(etl))

\* etl.py:169  conn.commit()
Commit(ok) ==
    /\ etl.pc = "insert"
    /\ etl.k > Len(etl.records)
    /\ IF ok
       THEN Etl([etl EXCEPT !.pc = "verify", !.pending = {},
                           !.table = @ \cup etl.pending])
       ELSE Etl(LoadFailed(etl))

\* etl.py:173-183  SELECT COUNT(*) after the commit, then return True.
CountAfter(ok) ==
    /\ etl.pc = "verify"
    /\ IF ok
       THEN Etl([etl EXCEPT !.pc = "returned", !.result = "True"])
       ELSE Etl(LoadFailed(etl))

\* etl.py:209-217  load_data has returned to run_etl_job.
JobDone ==
    /\ etl.pc = "returned"
    /\ Etl([etl EXCEPT !.pc = "idle"])

(***************************************************************************)
(* Specifications.                                                         *)
(***************************************************************************)

\* EtlSpec: the scheduler runs jobs one after the other.
EtlNext ==
    \/ \E n \in 1..MaxRecords : run_etl_job(n)
    \/ \E ok \in BOOLEAN : create_connection(ok)
    \/ \E ok \in BOOLEAN : CountBefore(ok)
    \/ \E ok \in BOOLEAN : clear_table(ok)
    \/ \E ok \in BOOLEAN : InsertRecord(ok)
    \/ \E ok \in BOOLEAN : Commit(ok)
    \/ \E ok \in BOOLEAN : CountAfter(ok)
    \/ JobDone

EtlSpec == Init /\ [][EtlNext]_vars

\* BootSpec: the startup code runs once, from its first statement.
BootInit ==
    /\ conversation_memories = [id \in AllIds |-> 0]
    /\ memories = << >>
    /\ uuids = 0
    /\ requests = 0
    /\ run = [t \in Threads |-> Idle]
    /\ calls = [id \in AllIds |-> << >>]
    /\ boot = BootStart
    /\ etl = EtlStart

BootNext ==
    \/ \E outcome \in CheckOutcomes : CheckOllama(outcome)
    \/ Sleep
    \/ LoopExhausted
    \/ \E ok, file \in BOOLEAN : InitializeDatabase(ok, file)
    \/ \E ok \in BOOLEAN : ImportAgent(ok)

BootSpec == BootInit /\ [][BootNext]_vars

\* Spec: one worker, so requests are served one after the other.
Next ==
    \/ Receive(1)
    \/ AssignConversationId(1)
    \/ MemCheck(1)
    \/ MemCreate(1)
    \/ MemReturn(1)
    \/ PrepInputs(1)
    \/ PlanFinalAnswer(1)
    \/ \E tool \in Tools : PlanAction(1, tool)
    \/ ParseFailure(1)
    \/ Stop(1)
    \/ EngineFault(1)
    \/ ToolFault(1)
    \/ SaveInput(1)
    \/ SaveOutput(1)
    \/ BuildResponse(1)
    \/ HandleException(1)
    \/ Respond(1)

Spec == Init /\ [][Next]_vars

\* FairSpec: every call returns (or raises), so a worker that can step does.
FairSpec == Spec /\ WF_vars(Next)

\* ConcSpec: two workers serve requests concurrently.  The cycles of the
\* reasoning loop touch nothing but the run's own state, so here the engine
\* answers on the first cycle or cannot be reached.
ConcNext ==
    \E t \in Threads :
        \/ Receive(t)
        \/ AssignConversationId(t)
        \/ MemCheck(t)
        \/ MemCreate(t)
        \/ MemReturn(t)
        \/ PrepInputs(t)
        \/ PlanFinalAnswer(t)
        \/ EngineFault(t)
        \/ SaveInput(t)
        \/ SaveOutput(t)
        \/ BuildResponse(t)
        \/ HandleException(t)
        \/ Respond(t)

ConcSpec == Init /\ [][ConcNext]_vars

\* ExistingSpec: two workers serve requests concurrently on a store that
\* already holds conversation "A" with the turn of one answered call.
ExistingInit ==
    /\ conversation_memories = [id \in AllIds |-> IF id = "A" THEN 1 ELSE 0]
    /\ memories = <<<<HumanMessage("q0", "A"), AIMessage(FinalAnswerText, "A")>>>>
    /\ uuids = 0
    /\ requests = 0
    /\ run = [t \in Threads |-> Idle]
    /\ calls = [id \in AllIds |->
                  IF id = "A" THEN <<<<"q0", FinalAnswerText>>>> ELSE << >>]
    /\ boot = BootDone
    /\ etl = EtlStart

ExistingSpec == ExistingInit /\ [][ConcNext]_vars

\* ToolSpec: one worker; the engine's responses parse, and the tools it asks
\* for may fail with an error text or not exist.
ToolNext ==
    \/ Receive(1)
    \/ AssignConversationId(1)
    \/ MemCheck(1)
    \/ MemCreate(1)
    \/ MemReturn(1)
    \/ PrepInputs(1)
    \/ PlanFinalAnswer(1)
    \/ PlanAction(1, QueryTool)
    \/ \E c \in ErrorCases : ToolError(1, c)
    \/ Stop(1)
    \/ EngineFault(1)
    \/ ToolFault(1)
    \/ SaveInput(1)
    \/ SaveOutput(1)
    \/ BuildResponse(1)
    \/ HandleException(1)
    \/ Respond(1)

ToolSpec == Init /\ [][ToolNext]_vars

(***************************************************************************)
(* Properties.                                                             *)
(***************************************************************************)

\* No call of process_agent_query is in progress.
Quiet == \A t \in Threads : run[t].pc \in {"idle", "responded", "rejected"}

\* The i-th returned call of an id has its question at position 2i-1 of the
\* history and its response text at position 2i.
TurnsMatchCalls(id) ==
    /\ Len(History(id)) = 2 * Len(calls[id])
    /\ \A i \in 1..Len(calls[id]) :
          /\ History(id)[2 * i - 1].role = "human"
          /\ History(id)[2 * i - 1].content = calls[id][i][1]
          /\ History(id)[2 * i].role = "ai"
          /\ History(id)[2 * i].content = calls[id][i][2]

\* C1: after N sequential calls of process_agent_query with a non-empty id,
\* whatever their outcomes, the history of the id holds exactly 2N messages,
\* the i-th call's question at 2i-1 and its answer or failure notice at 2i.
C1_HistoryHasTwoMessagesPerCall ==
    Quiet => \A id \in AllIds \ {NoId} : TurnsMatchCalls(id)

\* C2: process_agent_query never raises to its caller; a fault of the run is
\* returned as a result with success=false whose text carries the fault's
\* message.
C2_FaultsAreReturned ==
    \A t \in Threads :
        run[t].pc = "responded" =>
            /\ run[t].status = 200
            /\ run[t].outcome = "Faulted" =>
                  /\ run[t].response.success = FALSE
                  /\ run[t].response.response = ErrorText(run[t].fault)
                  /\ run[t].response.query = run[t].query
                  /\ run[t].response.steps = << >>

C2_Witness ==
    \E t \in Threads :
        /\ run[t].pc = "responded"
        /\ run[t].outcome = "Faulted"
        /\ run[t].fault = ToolFaultMessage
        /\ run[t].iterations > 0

\* C3: a run that ends in Aborted (iteration cap reached without a
\* FinalAnswer, or every cycle failing to parse) returns success=false and
\* does not raise.
C3_AbortedReturnsFailure ==
    \A t \in Threads :
        (run[t].pc = "responded" /\ run[t].outcome = "Aborted") =>
            /\ run[t].status = 200
            /\ run[t].response.success = FALSE

\* C4: a run that reaches the iteration cap without a FinalAnswer ends in
\* Aborted and appends exactly two messages to its conversation's history:
\* the question (user) and then the failure notice it returns (assistant).
C4_AbortedAppendsTurn ==
    \A t \in Threads :
        /\ (run[t].pc \in {"save_input", "save_output", "build", "responded"}
              /\ run[t].iterations = MaxIterations)
           => run[t].outcome = "Aborted"
        /\ (run[t].pc \in {"build", "responded"} /\ run[t].outcome = "Aborted")
           => /\ run[t].iterations = MaxIterations
              /\ History(run[t].conversation_id) =
                    run[t].chat_history \o
                    << [role |-> "human", content |-> run[t].query,
                        conv |-> run[t].conversation_id],
                       [role |-> "ai", content |-> StoppedNotice,
                        conv |-> run[t].conversation_id] >>
              /\ run[t].pc = "responded" =>
                    run[t].response.response = StoppedNotice

C4_Witness ==
    \E t \in Threads :
        /\ run[t].pc = "responded"
        /\ run[t].outcome = "Aborted"
        /\ Len(run[t].chat_history) = 2
        /\ Len(History(run[t].conversation_id)) = 4

\* C5: without a conversation id (None or "") process_agent_query generates
\* an identifier that is not yet a key of the store, uses it for the run's
\* memory and returns it; a non-empty id is used and returned as given; the
\* store never holds a conversation keyed by the empty string.
C5_ConversationIdUsed ==
    /\ NoId \notin Keys
    /\ \A t \in Threads :
          /\ run[t].pc \notin {"idle", "entered", "rejected"} =>
                /\ run[t].given # NoId => run[t].conversation_id = run[t].given
                /\ run[t].given = NoId =>
                      run[t].conversation_id \in {Uuid(n) : n \in 1..uuids}
          /\ (run[t].pc = "mem_check" /\ run[t].given = NoId) =>
                run[t].conversation_id \notin Keys
          /\ run[t].pc \in {"invoke", "think", "save_input", "save_output",
                            "build", "except", "responded"} =>
                /\ run[t].memory # 0
                /\ run[t].memory = conversation_memories[run[t].conversation_id]
          /\ (run[t].pc = "responded" /\ run[t].status = 200) =>
                run[t].response.conversation_id = run[t].conversation_id

C5_Witness ==
    \E t \in Threads :
        /\ run[t].pc = "responded"
        /\ run[t].given = NoId
        /\ run[t].response.conversation_id = "u2"
        /\ Len(History("u2")) = 2
        /\ Len(History("u1")) = 2

\* Some worker stepped while serving conversation id.
Moved(id) ==
    \E t \in Threads : run'[t] # run[t] /\ run[t].conversation_id = id

\* C6: get_conversation_memory is idempotent: once a Conversation is stored
\* under an id, a later call with that id returns that Conversation; it
\* creates nothing, clears nothing and leaves the keys of the store unchanged.
C6_GetOrCreateIdempotent ==
    [][\A id \in AllIds :
          conversation_memories[id] # 0 =>
              /\ conversation_memories'[id] = conversation_memories[id]
              /\ \A t \in Threads :
                    (run[t].pc = "mem_return" /\ run'[t].pc = "invoke"
                       /\ run[t].conversation_id = id)
                    => run'[t].memory = conversation_memories[id]]_vars

\* C7: runs on different conversation ids do not interfere: a run with id A
\* never changes the history stored under an id B # A, and the history read
\* for A's prompt holds only messages of A.
C7_NoInterference ==
    /\ [][\A id \in AllIds : History(id)' # History(id) => Moved(id)]_vars
    /\ [](\A t \in Threads :
             \A i \in 1..Len(run[t].chat_history) :
                 run[t].chat_history[i].conv = run[t].conversation_id)

C7_Witness ==
    \E t1, t2 \in Threads :
        /\ run[t1].pc = "save_output" /\ run[t1].conversation_id = "A"
        /\ run[t2].pc = "save_output" /\ run[t2].conversation_id = "B"
        /\ Len(History("A")) = 1
        /\ Len(History("B")) = 1

\* C8: exactly one Conversation per identifier even under concurrency: two
\* concurrent requests with the same, previously unseen id obtain the same
\* Conversation, and after both complete successfully the history stored
\* under the id holds the 4 messages of both requests.
C8_OneConversationPerId ==
    \A t1, t2 \in Threads :
        (/\ t1 # t2
         /\ run[t1].pc = "responded" /\ run[t2].pc = "responded"
         /\ run[t1].response.success /\ run[t2].response.success
         /\ run[t1].conversation_id = run[t2].conversation_id
         /\ run[t1].chat_history = << >> /\ run[t2].chat_history = << >>)
        => /\ run[t1].memory = run[t2].memory
           /\ Len(History(run[t1].conversation_id)) = 4

\* The entries of a trace that are not parse-failure entries.
ToolEntries(steps) == SelectSeq(steps, LAMBDA e : e.tool # ExceptionTool)

ParseFailureEntry ==
    [tool |-> ExceptionTool, input |-> ParseErrorObservation,
     output |-> ParseErrorObservation]

InLoop(t) == run[t].pc = "think"

\* The reasoning loop of the run has ended.
LoopEnded(t) == run[t].outcome \in {"Answered", "Aborted", "Faulted"}

\* C10 as stated: a run performs at most 8 cycles, hence at most 8
\* completion-engine calls and at most 8 trace entries.
C10_AtMostEightEngineCalls ==
    \A t \in Threads :
        /\ run[t].iterations <= MaxIterations
        /\ run[t].llm_calls <= MaxIterations
        /\ Len(run[t].intermediate_steps) <= MaxIterations

\* C10 amended: every run of the loop terminates, provided each engine call
\* and each tool call returns: it performs at most 8 cycles, hence at most 8
\* planning calls of the engine and at most 8 trace entries, and ends in
\* Answered or Aborted; each sql_db_query_checker invocation calls the engine
\* once more, so a run calls the engine at most 16 times.
C10_LoopTerminates ==
    /\ [](\A t \in Threads :
             /\ run[t].iterations <= MaxIterations
             /\ Len(run[t].intermediate_steps) <= MaxIterations
             /\ run[t].llm_calls - CheckerCalls(run[t].intermediate_steps)
                   <= MaxIterations
             /\ run[t].llm_calls <= 2 * MaxIterations
             /\ (run[t].pc \in {"save_input", "save_output", "build"}
                   => run[t].outcome \in {"Answered", "Aborted"}))
    /\ \A t \in Threads : InLoop(t) ~> LoopEnded(t)

C10_Witness ==
    \E t \in Threads :
        /\ run[t].pc = "responded"
        /\ run[t].outcome = "Aborted"
        /\ run[t].llm_calls = 2 * MaxIterations


\* s is a prefix of r.
IsPrefix(s, r) == Len(s) <= Len(r) /\ SubSeq(r, 1, Len(s)) = s

\* C11: conversation history is append-only: the history stored under an id
\* at an earlier state is a prefix of the history stored under it at every
\* later state; no message is changed or removed and no conversation is
\* deleted from the store.
C11_HistoryAppendOnly ==
    [][\A id \in AllIds :
          /\ IsPrefix(History(id), History(id)')
          /\ id \in Keys => id \in Keys']_vars


\* The trace entry of a tool-level error.
IsToolError(e) ==
    \E c \in ErrorCases :
        e = [tool |-> c.tool, input |-> c.tool_input, output |-> c.observation]

\* C12: a tool-level error inside a run (unknown table, failing query, a tool
\* outside the tool set) does not end the run and does not reach the service
\* boundary: its error text becomes the observation of the cycle, is recorded
\* in the trace, and the loop returns to Thinking for the next cycle.
C12_ToolErrorIsObserved ==
    /\ [][\A t \in Threads :
             (/\ Len(run'[t].dispatched) = Len(run[t].dispatched) + 1
              /\ IsToolError(run'[t].dispatched[Len(run'[t].dispatched)]))
             => LET e == run'[t].dispatched[Len(run'[t].dispatched)]
                IN /\ run'[t].pc = "think"
                   /\ run'[t].outcome = "none"
                   /\ run'[t].fault = ""
                   /\ run'[t].iterations = run[t].iterations + 1
                   /\ run'[t].intermediate_steps =
                         Append(run[t].intermediate_steps,
                                <<[tool |-> e.tool, tool_input |-> e.input],
                                  e.output>>)]_vars
    /\ [](\A t \in Threads :
             (run[t].pc = "responded" /\ run[t].response.success) =>
                 /\ Len(run[t].response.steps) >= Len(run[t].dispatched)
                 /\ \A i \in 1..Len(run[t].dispatched) :
                       IsToolError(run[t].dispatched[i]) =>
                           ToolEntries(run[t].response.steps)[i] =
                               run[t].dispatched[i])

C12_Witness ==
    \E t \in Threads :
        /\ run[t].pc = "responded"
        /\ run[t].outcome = "Answered"
        /\ Len(run[t].response.steps) = 2
        /\ run[t].response.steps[1].tool = UnknownTool
        /\ IsToolError(run[t].response.steps[1])
        /\ run[t].response.steps[2].tool = QueryTool
        /\ ~IsToolError(run[t].response.steps[2])


\* The parse failures at the end of a trace, one after the other.
RECURSIVE TrailingParseFailures(_)
TrailingParseFailures(steps) ==
    IF steps = << >> \/ steps[Len(steps)][1].tool # ExceptionTool
    THEN 0
    ELSE 1 + TrailingParseFailures(SubSeq(steps, 1, Len(steps) - 1))

\* The parse-failure steps of a trace.
ParseFailureSteps(steps) ==
    Cardinality({i \in 1..Len(steps) : steps[i][1].tool = ExceptionTool})

\* C13 as stated: a run is aborted only when its well-formed cycles have used
\* up the iteration cap or a budget of consecutive parse failures (of two or
\* more) is exhausted, so parse failures separated by well-formed cycles do
\* not abort it.
C13_ConsecutiveFailureBudget ==
    \A t \in Threads :
        run[t].outcome = "Aborted" =>
            \/ Len(run[t].dispatched) = MaxIterations
            \/ TrailingParseFailures(run[t].intermediate_steps) >= 2

\* C13 amended: a response that fails to parse does not end the run: a
\* corrective observation is added to the scratchpad and the loop continues
\* with the next cycle; the failed cycle counts against max_iterations like
\* any other, there is no separate budget of consecutive parse failures, and
\* the run moves to Aborted exactly when 8 cycles, parsed or not, are done.
C13_ParseFailureIsACycle ==
    /\ [][\A t \in Threads :
             run'[t].parse_failures = run[t].parse_failures + 1 =>
                 /\ run'[t].pc = "think"
                 /\ run'[t].outcome = "none"
                 /\ run'[t].iterations = run[t].iterations + 1
                 /\ run'[t].intermediate_steps =
                       Append(run[t].intermediate_steps,
                              <<[tool |-> ExceptionTool,
                                 tool_input |-> ParseErrorObservation],
                                ParseErrorObservation>>)]_vars
    /\ [](\A t \in Threads :
             /\ run[t].parse_failures =
                   ParseFailureSteps(run[t].intermediate_steps)
             /\ run[t].parse_failures + Len(run[t].dispatched) =
                   run[t].iterations
             /\ run[t].outcome = "Aborted" =>
                   run[t].iterations = MaxIterations
             /\ (run[t].pc = "think" /\ run[t].iterations < MaxIterations) =>
                   run[t].outcome = "none")

C13_Witness ==
    \E t \in Threads :
        /\ run[t].pc = "responded"
        /\ run[t].outcome = "Aborted"
        /\ run[t].parse_failures = 1
        /\ run[t].intermediate_steps[1][1].tool = ExceptionTool
        /\ Len(run[t].dispatched) = MaxIterations - 1


\* C16: a request with an empty question is answered with HTTP 400 before
\* process_agent_query is called: no run starts, no conversation is created
\* and no history changes; a request with a question is passed on.
C16_EmptyQuestionRejected ==
    /\ [][\A t \in Threads :
             (run[t].pc = "idle" /\ run'[t].pc # "idle") =>
                 /\ run'[t].pc \in {"rejected", "entered"}
                 /\ run'[t].pc = "entered" <=> run'[t].query # ""]_vars
    /\ [][\A t \in Threads :
             (run[t].pc = "rejected" \/ run'[t].pc = "rejected") =>
                 /\ run'[t].pc \in {"rejected", "idle"}
                 /\ UNCHANGED <<conversation_memories, memories, uuids, calls>>]_vars
    /\ [](\A t \in Threads :
             run[t].pc = "rejected" =>
                 /\ run[t].status = 400
                 /\ run[t].query = ""
                 /\ run[t].llm_calls = 0
                 /\ run[t].response = NoResponse)

C16_Witness ==
    \E t \in Threads :
        /\ run[t].pc = "rejected"
        /\ run[t].given = "A"
        /\ Len(History("A")) = 2


\* C17: a fault inside process_agent_query is turned into a result with
\* success=false and an empty list of steps, even when tools were invoked
\* before the fault, and the conversation's history is left as it was before
\* the call; for an id not seen before, the store has gained an entry whose
\* history is empty.
C17_FaultLeavesHistory ==
    \A t \in Threads :
        (run[t].pc = "responded" /\ run[t].outcome = "Faulted") =>
            /\ run[t].response.success = FALSE
            /\ run[t].response.steps = << >>
            /\ run[t].response.conversation_id = run[t].conversation_id
            /\ run[t].conversation_id \in Keys
            /\ History(run[t].conversation_id) = run[t].chat_history
            /\ Len(calls[run[t].conversation_id]) = 1
               => History(run[t].conversation_id) = << >>

C17_Witness ==
    \E t \in Threads :
        /\ run[t].pc = "responded"
        /\ run[t].outcome = "Faulted"
        /\ Len(run[t].dispatched) >= 2
        /\ run[t].given = "B"
        /\ "B" \in Keys
        /\ History("B") = << >>
        /\ requests = 1


\* A step of worker t's reasoning loop: prep_inputs, a cycle, or the loop's
\* end.
LoopStep(t) ==
    /\ run[t].pc \in {"invoke", "think"}
    /\ run'[t] # run[t]

\* C14: no step inside a run changes the conversation histories (the only
\* change a run makes is the append of its question and answer once the loop
\* has ended), so the history that the prompt of every cycle of the run
\* shows is the history as it was when the run started.
C14_PromptShowsHistoryAtRunStart ==
    /\ [][\A t \in Threads :
             LoopStep(t) => UNCHANGED <<conversation_memories, memories>>]_vars
    /\ [](\A t \in Threads :
             run[t].llm_calls > 0 => run[t].prompt_history = run[t].chat_history)


\* The returned calls of an id that were successful.
Succeeded(id) ==
    {i \in 1..Len(calls[id]) :
        calls[id][i][2] \notin {ErrorText(EngineFaultMessage),
                                ErrorText(ToolFaultMessage)}}

\* The messages of a role among the first n of a history.
RoleCount(h, n, role) == Cardinality({i \in 1..n : h[i].role = role})

\* C15: concurrent requests on the already existing conversation "A" never
\* lose or partially write a turn: once the runs have returned, the history
\* holds two messages per successful call (so two successful runs make it
\* grow by exactly 4), each run's question stands before its own answer, and
\* a run that faulted has left nothing, so the history holds whole
\* question/answer pairs only.
C15_NoLostOrPartialTurn ==
    /\ Quiet =>
          /\ Len(History("A")) = 2 * Cardinality(Succeeded("A"))
          /\ RoleCount(History("A"), Len(History("A")), "human") =
                RoleCount(History("A"), Len(History("A")), "ai")
    /\ \A n \in 1..Len(History("A")) :
          RoleCount(History("A"), n, "ai") <= RoleCount(History("A"), n, "human")
    /\ \A t \in Threads :
          (run[t].pc \in {"build", "responded"} /\ run[t].conversation_id = "A") =>
              IF run[t].outcome = "Faulted"
              THEN \A i \in 1..Len(History("A")) :
                      History("A")[i].content # run[t].query
              ELSE /\ 0 < run[t].question_at
                   /\ run[t].question_at < run[t].answer_at
                   /\ run[t].answer_at <= Len(History("A"))
                   /\ History("A")[run[t].question_at] =
                         HumanMessage(run[t].query, "A")
                   /\ History("A")[run[t].answer_at] =
                         AIMessage(run[t].output, "A")
    /\ \A t1, t2 \in Threads :
          (/\ t1 # t2
           /\ run[t1].pc \in {"build", "responded"}
           /\ run[t2].pc \in {"build", "responded"}
           /\ run[t1].conversation_id = "A" /\ run[t2].conversation_id = "A"
           /\ run[t1].outcome # "Faulted" /\ run[t2].outcome # "Faulted")
          => run[t1].answer_at # run[t2].answer_at

C15_Witness ==
    /\ \A t \in Threads :
          /\ run[t].pc = "responded"
          /\ run[t].conversation_id = "A"
          /\ run[t].response.success
    /\ Len(History("A")) = 6
    /\ History("A")[3].role = "human"
    /\ History("A")[4].role = "human"


\* The position of the first entry of a kind in the startup log (0: none).
FirstAt(log, entry) ==
    IF \E i \in 1..Len(log) : log[i] = entry
    THEN CHOOSE i \in 1..Len(log) :
             log[i] = entry /\ \A j \in 1..(i - 1) : log[j] # entry
    ELSE 0

Count(log, entries) == Cardinality({i \in 1..Len(log) : log[i] \in entries})

InitDbEntries == {"initialize_database: True", "initialize_database: False"}

FailedCheckEntries ==
    {"Ollama returned unexpected status", "Ollama service is not running"}

BootWarning == "Proceeding without confirmed Ollama connection"

\* C18: at startup check_ollama is attempted at most 3 times and not again
\* after its first success; after 3 failed attempts a warning is logged and the
\* startup still goes on to initialise the database and import the agent;
\* and whenever the agent module is loaded, initialize_database has run
\* before.
C18_StartupChecksThenInitialises ==
    /\ [](/\ boot.attempts <= max_retries
          /\ Count(boot.log, FailedCheckEntries) <= max_retries
          /\ Count(boot.log, {"Ollama service is running"}) <= 1
          /\ FirstAt(boot.log, "Ollama service is running") # 0 =>
                /\ boot.pc # "check" /\ boot.pc # "sleep"
                /\ \A i \in 1..Len(boot.log) :
                      boot.log[i] \in FailedCheckEntries =>
                          i < FirstAt(boot.log, "Ollama service is running")
          /\ Count(boot.log, FailedCheckEntries) = max_retries =>
                /\ Count(boot.log, {BootWarning}) = 1
                /\ boot.pc \in {"check", "init_db", "import_agent", "serving",
                                "aborted"}
          /\ Count(boot.log, {BootWarning}) = 1 =>
                Count(boot.log, FailedCheckEntries) = max_retries
          /\ FirstAt(boot.log, "from agent import") # 0 =>
                /\ Count(boot.log, InitDbEntries) = 1
                /\ \E i \in 1..Len(boot.log) :
                      /\ boot.log[i] \in InitDbEntries
                      /\ i < FirstAt(boot.log, "from agent import"))
    /\ [][boot'.attempts # boot.attempts =>
             /\ boot'.attempts = boot.attempts + 1
             /\ FirstAt(boot.log, "Ollama service is running") = 0]_vars
    /\ [][boot.pc = "init_db" => boot'.pc = "import_agent"]_vars

C18_Witness ==
    /\ boot.pc = "serving"
    /\ boot.attempts = max_retries
    /\ Count(boot.log, {BootWarning}) = 1
    /\ boot.log[1] = "Ollama returned unexpected status"
    /\ boot.log[3] = "Ollama service is not running"


\* The records passed to load_data, as a set of rows.
Passed == {etl.records[i] : i \in 1..Len(etl.records)}

\* C19: load_data is all-or-nothing for the new records: when it has
\* returned True the employees table holds exactly the records passed in,
\* and when it has returned False none of the passed records is in the
\* table, whether or not clear_table succeeded.
C19_LoadAllOrNothing ==
    etl.pc = "returned" =>
        /\ etl.result = "True" => etl.table = Passed
        /\ etl.result = "False" => etl.table \cap Passed = {}

====
